---------------------------- MODULE Spec2Model ----------------------------
(***************************************************************************)
(* PumpSwap SDK: constant-product quoting, slippage bounds, pool discovery *)
(* and the buy / sell call paths.                                          *)
(*                                                                         *)
(* Sources (paths relative to the repository copy under src/):            *)
(*   src/cli/buy-cli.ts      lines   1-136  buy CLI                        *)
(*                           lines 137-487  PumpSwapSDK                    *)
(*                           lines 488-727  PoolService                    *)
(*   src/cli/sell-cli.ts                    sell CLI                       *)
(*   src/services/transaction.service.ts    TransactionService             *)
(*   unnamed/part_001                       TokenService, utils/env, config*)
(*   unnamed/part_002                       connection, wallet             *)
(*                                                                         *)
(* Reserves and amounts are JavaScript bigint values: unbounded integers,  *)
(* so no wrap-around is modelled; the bounds below only keep the state     *)
(* space finite.                                                           *)
(***************************************************************************)
EXTENDS Integers, Sequences, FiniteSets, TLC

\* ------------------------------------------------------------------ bounds
\* Largest raw reserve of a pool in the quoting specification.
MaxReserve == 7
\* Largest raw amount a caller passes to a quote.
MaxAmountIn == 7
\* Largest ideal amount handed to the slippage functions.
MaxIdeal == 12
\* Largest raw reserve of an on-chain pool in the discovery specification.
MaxChainReserve == 2
\* Largest raw amount (lamports, or token base units) of a buy or sell call.
MaxTradeAmount == 2
\* Largest token balance (in units of 10^-DECIMALS tokens) of the seller.
MaxBalance == 2
\* Number of successive PoolService calls a caller makes.
MaxCalls == 2

\* --------------------------------------------------------------- constants
\* 10000n in calculateWithSlippageBuy / calculateWithSlippageSell.
BPS_DENOMINATOR == 10000
\* LAMPORTS_PER_SOL (@solana/web3.js; mirrored by DEFAULTS.LAMPORTS_PER_SOL).
LAMPORTS_PER_SOL == 1000000000
\* DEFAULTS.DECIMALS
DEFAULT_DECIMALS == 6
\* DEFAULTS.SLIPPAGE (5% in basis points).
DEFAULT_SLIPPAGE == 500

VARIABLES
    \* --- SwapQuoter (calculateBuyTokenAmount / calculateSellSolAmount)
    poolData,       \* {baseReserve, quoteReserve} of the pool getBestPool returned
    buyQuote,       \* last calculateBuyTokenAmount call: [called, amountIn, amountOut]
    sellQuote,      \* last calculateSellSolAmount call: [called, amountIn, amountOut]
    \* --- SlippageGuard (calculateWithSlippageBuy / calculateWithSlippageSell)
    idealAmount,    \* the amount both functions are applied to
    prevSlip,       \* the previous application: [bps, buy, sell]
    curSlip,        \* the latest application:   [bps, buy, sell]
    \* --- PoolService (discovery)
    chain,          \* the pool accounts of the AMM program: address -> account data
    lookup,         \* the three lookup promises of one getPoolsWithPrices call
    dpc,            \* where the getPoolsWithPrices call is
    discovered,     \* the list getPoolsWithPrices returned
    discError,      \* the error getPoolsWithPrices threw
    api,            \* the PoolService method the caller invoked
    bestPool,       \* what getBestPool gave its caller: [status, pools, error]
    price,          \* what getPrice gave its caller: [status, value]
    queries,        \* getProgramAccounts requests issued so far, per lookup
    calls,          \* PoolService calls made so far
    previous,       \* what the call before the current one returned
    \* --- PumpSwapSDK.buy / sellExactAmount / sellPercentage and the CLIs
    call,           \* the invocation: [entry, op, slippage, amount, percentage]
    tpc,            \* where the invocation is (the await it is suspended at)
    selectedPool,   \* the pool the method's own getBestPool call returned
    quote,          \* the quote step: [done, pool, amountIn, amountOut]
    slipUse,        \* the slippage step: [evaluated, bps, bounded]
    instruction,    \* the swap instruction: [built, poolId, amount, bound]
    submissions,    \* number of connection.sendTransaction calls made
    txResult,       \* what the caller got: [returned, success, error]
    bestPoolCalls,  \* number of getBestPool calls the invocation made
    balanceRead,    \* the balance sellPercentage read: [read, value, queryFailed]
    mintInfo,       \* the mint account of the traded token: [parsed, decimals]
    simulations,    \* number of simulateTransaction calls the invocation made
    delegation,     \* sellPercentage's sellExactAmount call: [made, amount, slippage]
    accounts,       \* the accounts of the transaction built: [ataOf, credited, owner, ...]
    \* --- TransactionService called with ready-made instructions
    sendCall,       \* the invocation: [method, instruction]
    spc,            \* where that invocation is
    handedPool,     \* the pool address given to the submission collaborator
    sendResult      \* what the caller got: [returned, success, error, signature]

quoteVars == <<poolData, buyQuote, sellQuote>>
slipVars == <<idealAmount, prevSlip, curSlip>>
discVars == <<chain, lookup, dpc, discovered, discError,
              api, bestPool, price, queries, calls, previous>>
callVars == <<call, tpc, selectedPool, quote, slipUse, instruction,
              submissions, txResult, bestPoolCalls, balanceRead,
              mintInfo, simulations, delegation, accounts>>
sendVars == <<sendCall, spc, handedPool, sendResult>>
tradeVars == <<callVars, sendVars>>
vars == <<poolData, buyQuote, sellQuote, idealAmount, prevSlip, curSlip,
          chain, lookup, dpc, discovered, discError,
          api, bestPool, price, queries, calls, previous,
          call, tpc, selectedPool, quote, slipUse, instruction,
          submissions, txResult, bestPoolCalls, balanceRead,
          mintInfo, simulations, delegation, accounts,
          sendCall, spc, handedPool, sendResult>>

\* ------------------------------------------------------- bigint arithmetic
Abs(n) == IF n < 0 THEN -n ELSE n

\* n is the mathematical floor of num / den (den > 0), by the defining
\* property of the floor (used only to state claims, never by the model of
\* the code).
IsFloorOf(n, num, den) == n * den <= num /\ num < (n + 1) * den

\* A division that rounds half up instead of truncating.
BigIntDivRounding(a, b) ==
    IF (a < 0) = (b < 0)
        THEN (2 * Abs(a) + Abs(b)) \div (2 * Abs(b))
        ELSE -((2 * Abs(a) + Abs(b)) \div (2 * Abs(b)))

\* bigint `/`: the quotient truncated toward zero (b # 0; b = 0 throws a
\* RangeError, which the callers below never reach with b = 0).
BigIntDiv(a, b) ==
    IF (a < 0) = (b < 0)
        THEN Abs(a) \div Abs(b)
        ELSE -(Abs(a) \div Abs(b))

\* ------------------------------------------------------------ SwapQuoter
\* A buy quote that adds the input to the wrong reserve.
calculateBuyTokenAmountWrongSide(baseReserve, quoteReserve, solAmount) ==
    LET k == baseReserve * quoteReserve
        newQuoteReserve == baseReserve + solAmount
        newBaseReserve == BigIntDiv(k, newQuoteReserve)
    IN  baseReserve - newBaseReserve

\* PumpSwapSDK.calculateBuyTokenAmount, after getBestPool returned the pool
\* whose poolData is (baseReserve, quoteReserve).
calculateBuyTokenAmount(baseReserve, quoteReserve, solAmount) ==
    LET k == baseReserve * quoteReserve
        newQuoteReserve == quoteReserve + solAmount
        newBaseReserve == BigIntDiv(k, newQuoteReserve)
    IN  baseReserve - newBaseReserve

\* A sell quote that adds the input to the wrong reserve.
calculateSellSolAmountWrongSide(baseReserve, quoteReserve, tokenAmount) ==
    LET k == baseReserve * quoteReserve
        newBaseReserve == quoteReserve + tokenAmount
        newQuoteReserve == BigIntDiv(k, newBaseReserve)
    IN  quoteReserve - newQuoteReserve

\* PumpSwapSDK.calculateSellSolAmount, after getBestPool returned the pool.
calculateSellSolAmount(baseReserve, quoteReserve, tokenAmount) ==
    LET k == baseReserve * quoteReserve
        newBaseReserve == baseReserve + tokenAmount
        newQuoteReserve == BigIntDiv(k, newBaseReserve)
    IN  quoteReserve - newQuoteReserve

\* ----------------------------------------------------------- SlippageGuard
\* A buy bound that widens instead of shrinking (a "maximum input" bound).
calculateWithSlippageBuyWidening(amount, basisPoints) ==
    BigIntDiv(amount * (BPS_DENOMINATOR + basisPoints), BPS_DENOMINATOR)

\* PumpSwapSDK.calculateWithSlippageBuy
calculateWithSlippageBuy(amount, basisPoints) ==
    BigIntDiv(amount * (BPS_DENOMINATOR - basisPoints), BPS_DENOMINATOR)

\* A sell bound that rounds to the nearest unit instead of truncating.
calculateWithSlippageSellRounding(amount, basisPoints) ==
    BigIntDivRounding(amount * (BPS_DENOMINATOR - basisPoints), BPS_DENOMINATOR)

\* PumpSwapSDK.calculateWithSlippageSell
calculateWithSlippageSell(amount, basisPoints) ==
    BigIntDiv(amount * (BPS_DENOMINATOR - basisPoints), BPS_DENOMINATOR)

\* ======================================================================
\* Quoting specification: a pool with positive reserves (the only kind
\* getPriceAndLiquidity lets through) is quoted for buys and sells.
\* ======================================================================
\* ------------------------------------------------- idle component states
\* The addresses of the pool accounts the AMM program owns.
PoolAddresses == {"P1", "P2"}

\* The three lookups of getPoolsWithPrices, in the order of its Promise.all.
Lookups == <<"getPoolsWithBaseMint", "getPoolsWithQuoteMint",
             "getPoolsWithBaseMintQuoteWSOL">>
LookupNames == {Lookups[i] : i \in 1..Len(Lookups)}

\* A lookup promise: its state, the pools it fulfilled with, the accounts
\* of its response that did not decode, and whether it settled only after
\* the call that started it had already failed.
NoLookups == [q \in LookupNames |->
                [status |-> "idle", pools |-> <<>>, malformed |-> {}, late |-> FALSE]]

\* No getBestPool / getPrice result yet.
NoBest == [status |-> "none", pools |-> <<>>, error |-> ""]
NoPrice == [status |-> "none", value |-> <<>>]
NoPrevious == [status |-> "none", pools |-> <<>>]

\* Before any PoolService call.
DiscFresh ==
    /\ lookup = NoLookups
    /\ dpc = "idle"
    /\ discovered = <<>>
    /\ discError = ""
    /\ api = "none"
    /\ bestPool = NoBest
    /\ price = NoPrice
    /\ queries = [q \in LookupNames |-> 0]
    /\ calls = 0
    /\ previous = NoPrevious

DiscIdle ==
    /\ chain = [a \in PoolAddresses |->
                  [baseMint |-> "USDC", quoteMint |-> "WSOL",
                   baseReserve |-> 1, quoteReserve |-> 1]]
    /\ DiscFresh

\* JavaScript numbers as the callers pass them: an integer, a number with
\* a fractional part, or NaN.
Int_(n) == [kind |-> "int", value |-> n]
Fractional == [kind |-> "fractional", value |-> 0]
NaN == [kind |-> "nan", value |-> 0]

NoCall == [entry |-> "none", op |-> "none", user |-> "none", slippage |-> Int_(0),
           amount |-> Int_(0), percentage |-> 0]
NoPool == [address |-> "none", baseReserve |-> 0, quoteReserve |-> 0]
NoStep == [done |-> FALSE, pool |-> "none", amountIn |-> 0, amountOut |-> 0]
NoSlipUse == [evaluated |-> FALSE, bps |-> 0, bounded |-> 0]
NoInstruction == [built |-> FALSE, kind |-> "none", poolId |-> "none",
                  amount |-> 0, perUnit |-> 1, bound |-> 0]
NoResult == [returned |-> FALSE, success |-> FALSE, error |-> "", signature |-> ""]
NoBalance == [read |-> FALSE, value |-> 0, queryFailed |-> FALSE]
NoDelegation == [made |-> 0, amount |-> Int_(0), slippage |-> Int_(0)]
NoAccounts == [built |-> FALSE, ataOf |-> "none", credited |-> "none",
               payer |-> "none", owner |-> "none", signer |-> "none"]
\* A mint account whose data the RPC node parsed, with DEFAULTS.DECIMALS.
PlainMint == [parsed |-> TRUE, decimals |-> DEFAULT_DECIMALS]
NoSendCall == [method |-> "none", instruction |-> NoInstruction]

SendIdle ==
    /\ sendCall = NoSendCall
    /\ spc = "idle"
    /\ handedPool = "none"
    /\ sendResult = NoResult

\* Before any SDK or TransactionService call.
TradeFresh ==
    /\ call = NoCall
    /\ tpc = "idle"
    /\ selectedPool = NoPool
    /\ quote = NoStep
    /\ slipUse = NoSlipUse
    /\ instruction = NoInstruction
    /\ submissions = 0
    /\ txResult = NoResult
    /\ bestPoolCalls = 0
    /\ balanceRead = NoBalance
    /\ simulations = 0
    /\ delegation = NoDelegation
    /\ accounts = NoAccounts
    /\ SendIdle

TradeIdle ==
    /\ TradeFresh
    /\ mintInfo = PlainMint

NoQuote == [called |-> FALSE, amountIn |-> 0, amountOut |-> 0]

QuoteIdle ==
    /\ poolData = [baseReserve |-> 1, quoteReserve |-> 1]
    /\ buyQuote = NoQuote
    /\ sellQuote = NoQuote

SlipIdle ==
    /\ idealAmount = 0
    /\ prevSlip = [bps |-> 0, buy |-> 0, sell |-> 0]
    /\ curSlip = [bps |-> 0, buy |-> 0, sell |-> 0]

InitQuote ==
    /\ poolData \in [baseReserve : 1..MaxReserve, quoteReserve : 1..MaxReserve]
    /\ buyQuote = NoQuote
    /\ sellQuote = NoQuote
    /\ SlipIdle
    /\ DiscIdle
    /\ TradeIdle

\* calculateBuyTokenAmount(solAmount, mint) against the pool.
QuoteBuy ==
    \E solAmount \in 0..MaxAmountIn :
        /\ buyQuote' = [called |-> TRUE, amountIn |-> solAmount,
                        amountOut |-> calculateBuyTokenAmount(
                            poolData.baseReserve, poolData.quoteReserve, solAmount)]
        /\ UNCHANGED <<poolData, sellQuote, slipVars, discVars, tradeVars>>

\* calculateSellSolAmount(tokenAmount, mint) against the same pool.  The
\* amount sold is any caller amount, or the output of the last buy quote.
QuoteSell ==
    \E tokenAmount \in (0..MaxAmountIn) \cup {buyQuote.amountOut} :
        /\ tokenAmount >= 0
        /\ sellQuote' = [called |-> TRUE, amountIn |-> tokenAmount,
                         amountOut |-> calculateSellSolAmount(
                            poolData.baseReserve, poolData.quoteReserve, tokenAmount)]
        /\ UNCHANGED <<poolData, buyQuote, slipVars, discVars, tradeVars>>

NextQuote == QuoteBuy \/ QuoteSell

SpecQuote == InitQuote /\ [][NextQuote]_vars

\* C1: after calculateBuyTokenAmount on a pool with positive reserves (B, Q)
\* and a non-negative quoteAmountIn, the returned amount is exactly
\* B - floor((B * Q) / (Q + quoteAmountIn)).
C1_BuyQuoteExact ==
    buyQuote.called =>
        IsFloorOf(poolData.baseReserve - buyQuote.amountOut,
                  poolData.baseReserve * poolData.quoteReserve,
                  poolData.quoteReserve + buyQuote.amountIn)

\* A buy was quoted with a positive input and the division truncated.
C1_Witness ==
    /\ buyQuote.called
    /\ buyQuote.amountIn > 0
    /\ (poolData.baseReserve * poolData.quoteReserve)
            % (poolData.quoteReserve + buyQuote.amountIn) # 0
    /\ buyQuote.amountOut > 0

\* C2: after calculateSellSolAmount on a pool with positive reserves (B, Q)
\* and a non-negative baseAmountIn, the returned amount is exactly
\* Q - floor((B * Q) / (B + baseAmountIn)).
C2_SellQuoteExact ==
    sellQuote.called =>
        IsFloorOf(poolData.quoteReserve - sellQuote.amountOut,
                  poolData.baseReserve * poolData.quoteReserve,
                  poolData.baseReserve + sellQuote.amountIn)

\* A sell was quoted with a positive input and the division truncated.
C2_Witness ==
    /\ sellQuote.called
    /\ sellQuote.amountIn > 0
    /\ (poolData.baseReserve * poolData.quoteReserve)
            % (poolData.baseReserve + sellQuote.amountIn) # 0
    /\ sellQuote.amountOut > 0

\* C3 (as claimed): the quoted output never exceeds the exact unrounded
\* constant-product output: baseOut * (Q + quoteIn) <= B * quoteIn for a
\* buy with positive input, and quoteOut * (B + baseIn) <= Q * baseIn for a
\* sell with positive input.
C3_TruncationBiasPoolFavor ==
    /\ (buyQuote.called /\ buyQuote.amountIn > 0) =>
            buyQuote.amountOut * (poolData.quoteReserve + buyQuote.amountIn)
                <= poolData.baseReserve * buyQuote.amountIn
    /\ (sellQuote.called /\ sellQuote.amountIn > 0) =>
            sellQuote.amountOut * (poolData.baseReserve + sellQuote.amountIn)
                <= poolData.quoteReserve * sellQuote.amountIn

\* C4 (as claimed): a buy of quoteIn > 0 quoted as baseOut, followed by a
\* sell of baseOut quoted against the same reserves, yields
\* quoteOut <= quoteIn.
C4_RoundTripNeverProfitable ==
    (/\ buyQuote.called
     /\ buyQuote.amountIn > 0
     /\ sellQuote.called
     /\ sellQuote.amountIn = buyQuote.amountOut)
        => sellQuote.amountOut <= buyQuote.amountIn

\* C5: with baseOut the buy quote for a positive quoteIn and
\* newBaseReserve = B - baseOut, newBaseReserve * (Q + quoteIn) <= B * Q.
C5_ConstantProductConservation ==
    (buyQuote.called /\ buyQuote.amountIn > 0) =>
        (poolData.baseReserve - buyQuote.amountOut)
                * (poolData.quoteReserve + buyQuote.amountIn)
            <= poolData.baseReserve * poolData.quoteReserve

\* A buy with positive input whose new product is strictly below k.
C5_Witness ==
    /\ buyQuote.called
    /\ buyQuote.amountIn > 0
    /\ (poolData.baseReserve - buyQuote.amountOut)
                * (poolData.quoteReserve + buyQuote.amountIn)
            < poolData.baseReserve * poolData.quoteReserve
    /\ poolData.baseReserve - buyQuote.amountOut > 0

\* C15 (as claimed): no quote returns an amount when the reserve it
\* recomputes, floor(k / newReserve), is zero or negative: such a quote
\* fails with a reserve-exhaustion error instead of returning the whole
\* reserve.
C15_ReserveExhaustionFails ==
    /\ buyQuote.called => poolData.baseReserve - buyQuote.amountOut > 0
    /\ sellQuote.called => poolData.quoteReserve - sellQuote.amountOut > 0

\* ======================================================================
\* Slippage specification: both slippage functions are applied to one
\* ideal amount at rising tolerances.
\* ======================================================================
Slip(amount, bps) ==
    [bps |-> bps,
     buy |-> calculateWithSlippageBuy(amount, bps),
     sell |-> calculateWithSlippageSell(amount, bps)]

InitSlippage ==
    /\ idealAmount \in 0..MaxIdeal
    /\ \E bps \in {0, DEFAULT_SLIPPAGE} :
        /\ prevSlip = Slip(idealAmount, bps)
        /\ curSlip = Slip(idealAmount, bps)
    /\ QuoteIdle
    /\ DiscIdle
    /\ TradeIdle

\* The steps by which the tolerance is raised between two applications.
BpsSteps == {1, 3, 100, 2500, BPS_DENOMINATOR}

\* One more application of both functions, at a tolerance raised by a step.
ApplySlippage ==
    \E step \in BpsSteps :
        /\ curSlip.bps + step <= BPS_DENOMINATOR
        /\ prevSlip' = curSlip
        /\ curSlip' = Slip(idealAmount, curSlip.bps + step)
        /\ UNCHANGED <<idealAmount, quoteVars, discVars, tradeVars>>

NextSlippage == ApplySlippage

SpecSlippage == InitSlippage /\ [][NextSlippage]_vars

\* C6: for an ideal amount x >= 0 and bps in [0, 10000], both
\* calculateWithSlippageBuy and calculateWithSlippageSell return
\* floor(x * (10000 - bps) / 10000), and the two agree.
C6_SlippageBound ==
    /\ curSlip.bps \in 0..BPS_DENOMINATOR
    /\ IsFloorOf(curSlip.buy,
                 idealAmount * (BPS_DENOMINATOR - curSlip.bps), BPS_DENOMINATOR)
    /\ IsFloorOf(curSlip.sell,
                 idealAmount * (BPS_DENOMINATOR - curSlip.bps), BPS_DENOMINATOR)
    /\ curSlip.buy = curSlip.sell

\* Both functions were applied at a tolerance strictly inside the range, to
\* a positive amount, and the division truncated.
C6_Witness ==
    /\ idealAmount > 0
    /\ curSlip.bps > 0
    /\ curSlip.bps < BPS_DENOMINATOR
    /\ (idealAmount * (BPS_DENOMINATOR - curSlip.bps)) % BPS_DENOMINATOR # 0
    /\ curSlip.buy > 0

\* C7: for a fixed ideal amount the bounded amount does not increase when
\* bps increases; at bps = 0 it is the ideal amount and at bps = 10000 it
\* is 0.
C7_SlippageMonotone ==
    /\ prevSlip.bps <= curSlip.bps =>
            /\ curSlip.buy <= prevSlip.buy
            /\ curSlip.sell <= prevSlip.sell
    /\ curSlip.bps = 0 =>
            /\ curSlip.buy = idealAmount
            /\ curSlip.sell = idealAmount
    /\ curSlip.bps = BPS_DENOMINATOR =>
            /\ curSlip.buy = 0
            /\ curSlip.sell = 0

\* The tolerance was raised from 0 to 10000 on a positive amount: the bound
\* fell from the ideal amount to 0.
C7_Witness ==
    /\ idealAmount > 0
    /\ prevSlip.bps = 0
    /\ prevSlip.buy = idealAmount
    /\ curSlip.bps = BPS_DENOMINATOR
    /\ curSlip.sell < prevSlip.sell

\* ======================================================================
\* PoolService: discovery of the pools of one token (mintAddress).
\* ======================================================================
\* The queried token, the wrapped native asset and one other asset.
Mints == {"TOKEN", "WSOL", "USDC"}
mintAddress == "TOKEN"

\* The (base mint, quote mint) pairs of the pools on chain: matched by the
\* base and WSOL lookups, by the base lookup only, by the quote lookup, by
\* no lookup.
MintPairs == {<<"TOKEN", "WSOL">>, <<"TOKEN", "USDC">>,
              <<"WSOL", "TOKEN">>, <<"USDC", "WSOL">>}

\* The decoded data of a pool account (the fields the SDK reads).
PoolAccounts ==
    {[baseMint |-> mp[1], quoteMint |-> mp[2], baseReserve |-> b, quoteReserve |-> q] :
        mp \in MintPairs, b \in 0..MaxChainReserve, q \in 0..MaxChainReserve}

\* The memcmp filters of the three getProgramAccounts calls: offset 43 is
\* the base mint, offset 75 the quote mint.
Matches(q, account) ==
    CASE q = "getPoolsWithBaseMint" -> account.baseMint = mintAddress
      [] q = "getPoolsWithQuoteMint" -> account.quoteMint = mintAddress
      [] q = "getPoolsWithBaseMintQuoteWSOL" ->
            account.baseMint = mintAddress /\ account.quoteMint = "WSOL"

\* is_native_base as each lookup sets it.
IsNativeBase(q) == q = "getPoolsWithQuoteMint"

\* All orders in which an RPC node may list the accounts of set S.
Orderings(S) ==
    {f \in [1..Cardinality(S) -> S] : \A i, j \in 1..Cardinality(S) : i # j => f[i] # f[j]}

\* The possible responses of getProgramAccounts for lookup q: the matching
\* accounts, in any order.
Responses(q) == Orderings({a \in PoolAddresses : Matches(q, chain[a])})

\* response.map(...) of a lookup: one Pool per account.
DecodePools(q, response) ==
    [i \in 1..Len(response) |->
        [address |-> response[i],
         is_native_base |-> IsNativeBase(q),
         poolData |-> chain[response[i]]]]

\* A JavaScript number obtained as Number(bigint) / divisor, kept as the
\* pair (exact for the integers of this model).
Quotient(num, den) == [num |-> num, den |-> den]

\* number > 0 for a quotient: x/0 is Infinity for x > 0 and NaN for x = 0.
GreaterThanZero(x) == x.num > 0 /\ x.den >= 0

\* Math.pow(10, n)
RECURSIVE Pow10(_)
Pow10(n) == IF n = 0 THEN 1 ELSE 10 * Pow10(n - 1)

\* getPriceAndLiquidity without its reserve check.
getPriceAndLiquidityUnchecked(pool) ==
    LET baseReserve == pool.poolData.baseReserve
        quoteReserve == pool.poolData.quoteReserve
    IN  [ok |-> TRUE,
         error |-> "",
         value |-> [address |-> pool.address,
                    is_native_base |-> pool.is_native_base,
                    poolData |-> pool.poolData,
                    price |-> Quotient(quoteReserve, baseReserve),
                    reserves |-> [native |-> Quotient(quoteReserve, LAMPORTS_PER_SOL),
                                  token |-> Quotient(baseReserve, Pow10(DEFAULT_DECIMALS))]]]

\* PoolService.getPriceAndLiquidity: the promise it returns, rejected with
\* 'Invalid pool reserves' or fulfilled with the PoolWithPrice.
getPriceAndLiquidity(pool) ==
    LET baseReserve == pool.poolData.baseReserve
        quoteReserve == pool.poolData.quoteReserve
    IN  IF baseReserve = 0 \/ quoteReserve = 0
            THEN [ok |-> FALSE, error |-> "Invalid pool reserves", value |-> pool]
            ELSE [ok |-> TRUE,
                  error |-> "",
                  value |-> [address |-> pool.address,
                             is_native_base |-> pool.is_native_base,
                             poolData |-> pool.poolData,
                             price |-> Quotient(quoteReserve, baseReserve),
                             reserves |-> [native |-> Quotient(quoteReserve, LAMPORTS_PER_SOL),
                                           token |-> Quotient(baseReserve, Pow10(DEFAULT_DECIMALS))]]]

\* response.map(...) of a lookup that skips the accounts that do not decode
\* instead of failing.
DecodeDropping(q, response, malformed) ==
    [ok |-> TRUE,
     pools |-> DecodePools(q, SelectSeq(response, LAMBDA a : a \notin malformed))]

\* response.map(...) of a lookup when coder.accounts.decode throws for the
\* accounts in `malformed`: the map throws on the first of them, so the
\* lookup has a list of pools only when none of its accounts is malformed.
Decode(q, response, malformed) ==
    [ok |-> \A i \in 1..Len(response) : response[i] \notin malformed,
     pools |-> DecodePools(q, response)]

\* The pools of a list without the later entries of a repeated address.
RECURSIVE FirstOccurrences(_)
FirstOccurrences(pools) ==
    IF pools = <<>>
        THEN <<>>
        ELSE LET front == FirstOccurrences(SubSeq(pools, 1, Len(pools) - 1))
                 last == pools[Len(pools)]
             IN  IF \E i \in 1..Len(front) : front[i].address = last.address
                    THEN front
                    ELSE Append(front, last)

\* A combination of the three results that removes duplicates by address.
AllPoolsDeduplicated(lk) ==
    FirstOccurrences(lk[Lookups[1]].pools \o lk[Lookups[2]].pools \o lk[Lookups[3]].pools)

\* [...basePools, ...quotePools, ...wsolPools]
AllPools(lk) ==
    lk[Lookups[1]].pools \o lk[Lookups[2]].pools \o lk[Lookups[3]].pools

\* The part of getPoolsWithPrices after the three lookups fulfilled: price
\* every pool (Promise.all rejects when one pricing rejects), then keep the
\* pools with price > 0.
PriceAndFilter(allPools) ==
    LET priced == [i \in 1..Len(allPools) |-> getPriceAndLiquidity(allPools[i])]
        poolsWithPrices == [i \in 1..Len(allPools) |-> priced[i].value]
    IN  IF \E i \in 1..Len(allPools) : ~priced[i].ok
            THEN [ok |-> FALSE, error |-> "Invalid pool reserves", pools |-> <<>>]
            ELSE [ok |-> TRUE, error |-> "",
                  pools |-> SelectSeq(poolsWithPrices, LAMBDA pool : GreaterThanZero(pool.price))]

\* A combinator that waits for every promise to settle before it rejects
\* (Promise.allSettled followed by a check).
PromiseAllSettled(lk) ==
    IF \E q \in LookupNames : lk[q].status = "pending"
        THEN "pending"
        ELSE IF \E q \in LookupNames : lk[q].status = "rejected"
                THEN "rejected"
                ELSE "fulfilled"

\* Promise.all over the three lookup promises: rejected as soon as one of
\* them is, fulfilled once all of them are.
PromiseAll(lk) ==
    IF \E q \in LookupNames : lk[q].status = "rejected"
        THEN "rejected"
        ELSE IF \A q \in LookupNames : lk[q].status = "fulfilled"
                THEN "fulfilled"
                ELSE "pending"

\* x > y on two quotients with positive divisors.
GreaterThan(x, y) ==
    IF x.den = y.den THEN x.num > y.num ELSE x.num * y.den > y.num * x.den

\* pools.reduce(...) with a comparison that lets a later equal pool win.
RECURSIVE ReduceLastWins(_, _, _)
ReduceLastWins(pools, best, i) ==
    IF i > Len(pools)
        THEN best
        ELSE ReduceLastWins(pools,
                            IF GreaterThan(best.reserves.native, pools[i].reserves.native)
                                THEN best ELSE pools[i],
                            i + 1)

\* pools.reduce((best, current) =>
\*     current.reserves.native > best.reserves.native ? current : best)
\* from element i on, with the accumulator `best`.
RECURSIVE Reduce(_, _, _)
Reduce(pools, best, i) ==
    IF i > Len(pools)
        THEN best
        ELSE Reduce(pools,
                    IF GreaterThan(pools[i].reserves.native, best.reserves.native)
                        THEN pools[i] ELSE best,
                    i + 1)

\* getBestPool with the reduction that lets the last of equal pools win.
getBestPoolLastWins(found) ==
    IF ~found.ok
        THEN [status |-> "thrown", pools |-> <<>>, error |-> found.error]
        ELSE IF Len(found.pools) = 0
                THEN [status |-> "null", pools |-> <<>>, error |-> ""]
                ELSE [status |-> "pool",
                      pools |-> <<ReduceLastWins(found.pools, found.pools[1], 2)>>,
                      error |-> ""]

\* PoolService.getBestPool after its getPoolsWithPrices call settled with
\* `found`: rethrow, null for an empty list, else the reduction.
getBestPool(found) ==
    IF ~found.ok
        THEN [status |-> "thrown", pools |-> <<>>, error |-> found.error]
        ELSE IF Len(found.pools) = 0
                THEN [status |-> "null", pools |-> <<>>, error |-> ""]
                ELSE [status |-> "pool",
                      pools |-> <<Reduce(found.pools, found.pools[1], 2)>>,
                      error |-> ""]

\* A JavaScript number is truthy unless it is 0 or NaN.
Truthy(x) == x.num # 0

\* getPrice that turns a failed discovery into "no price".
getPriceSwallowing(best) ==
    IF best.status = "pool" /\ Truthy(best.pools[1].price)
        THEN [status |-> "number", value |-> <<best.pools[1].price>>]
        ELSE [status |-> "null", value |-> <<>>]

\* PoolService.getPrice after its getBestPool call settled with `best`:
\* rethrow, else bestPool?.price || null.
getPrice(best) ==
    IF best.status = "thrown"
        THEN [status |-> "thrown", value |-> <<>>]
        ELSE IF best.status = "pool" /\ Truthy(best.pools[1].price)
                THEN [status |-> "number", value |-> <<best.pools[1].price>>]
                ELSE [status |-> "null", value |-> <<>>]

InitDiscovery ==
    /\ chain \in [PoolAddresses -> PoolAccounts]
    /\ DiscFresh
    /\ QuoteIdle
    /\ SlipIdle
    /\ TradeIdle

\* The three lookup promises right after Promise.all([...]) evaluated its
\* argument: each lookup ran to its await of getProgramAccounts.
StartedLookups ==
    [q \in LookupNames |->
        [status |-> "pending", pools |-> <<>>, malformed |-> {}, late |-> FALSE]]

\* A PoolService that answers from the list of its last successful call.
CallCached(method) ==
    /\ dpc = "idle"
    /\ calls < MaxCalls
    /\ api' = method
    /\ calls' = calls + 1
    /\ IF previous.status = "returned"
          THEN LET found == [ok |-> TRUE, error |-> "", pools |-> previous.pools]
                   best == getBestPool(found)
               IN  /\ dpc' = "returned"
                   /\ discovered' = previous.pools
                   /\ bestPool' = IF method = "getPoolsWithPrices" THEN NoBest ELSE best
                   /\ price' = IF method = "getPrice" THEN getPrice(best) ELSE NoPrice
                   /\ UNCHANGED <<lookup, queries>>
          ELSE /\ dpc' = "awaitLookups"
               /\ lookup' = StartedLookups
               /\ queries' = [q \in LookupNames |-> queries[q] + 1]
               /\ UNCHANGED <<discovered, bestPool, price>>
    /\ UNCHANGED <<chain, discError, previous, quoteVars, slipVars, tradeVars>>

\* A PoolService method is called.  getPrice calls getBestPool, getBestPool
\* calls getPoolsWithPrices, and getPoolsWithPrices starts the three
\* lookups, each of which issues its getProgramAccounts request, before it
\* awaits Promise.all of them: all of this runs without a suspension.
Call(method) ==
    /\ dpc = "idle"
    /\ calls < MaxCalls
    /\ api' = method
    /\ calls' = calls + 1
    /\ dpc' = "awaitLookups"
    /\ lookup' = StartedLookups
    /\ queries' = [q \in LookupNames |-> queries[q] + 1]
    /\ UNCHANGED <<chain, discovered, discError, bestPool, price, previous>>
    /\ UNCHANGED <<quoteVars, slipVars, tradeVars>>

CallGetPoolsWithPrices == Call("getPoolsWithPrices")

CallGetBestPool == Call("getBestPool")

CallGetPrice == Call("getPrice")

\* The lookup promises became lk.  When the call still awaits them and
\* Promise.all settles, the call runs to its end: on a rejection
\* getPoolsWithPrices, getBestPool and getPrice each log and rethrow; on
\* fulfilment the pools are priced and filtered, getBestPool reduces the
\* list and getPrice reads the price.  Otherwise only the promises change.
Settle(lk, error) ==
    /\ lookup' = lk
    /\ IF dpc = "awaitLookups" /\ PromiseAll(lk) # "pending"
          THEN LET found == IF PromiseAll(lk) = "rejected"
                                THEN [ok |-> FALSE, error |-> error, pools |-> <<>>]
                                ELSE PriceAndFilter(AllPools(lk))
                   best == getBestPool(found)
               IN  /\ dpc' = IF found.ok THEN "returned" ELSE "thrown"
                   /\ discovered' = found.pools
                   /\ discError' = found.error
                   /\ bestPool' = IF api = "getPoolsWithPrices" THEN NoBest ELSE best
                   /\ price' = IF api = "getPrice" THEN getPrice(best) ELSE NoPrice
          ELSE UNCHANGED <<dpc, discovered, discError, bestPool, price>>
    /\ UNCHANGED <<chain, api, queries, calls, previous>>
    /\ UNCHANGED <<quoteVars, slipVars, tradeVars>>

\* The response of lookup q arrives and all its accounts decode.
LookupFulfil(q) ==
    /\ lookup[q].status = "pending"
    /\ \E response \in Responses(q) :
        Settle([lookup EXCEPT ![q] = [status |-> "fulfilled",
                                      pools |-> DecodePools(q, response),
                                      malformed |-> {},
                                      late |-> dpc # "awaitLookups"]],
               "")

\* The response of lookup q arrives and some of its accounts do not decode
\* as a pool: decode throws inside response.map, the lookup logs and
\* rethrows.
LookupDecodeFails(q) ==
    /\ lookup[q].status = "pending"
    /\ \E response \in Responses(q) :
        \E malformed \in SUBSET {response[i] : i \in 1..Len(response)} :
            /\ malformed # {}
            /\ LET decoded == Decode(q, response, malformed)
               IN  Settle([lookup EXCEPT ![q] =
                              [status |-> IF decoded.ok THEN "fulfilled" ELSE "rejected",
                               pools |-> IF decoded.ok THEN decoded.pools ELSE <<>>,
                               malformed |-> malformed,
                               late |-> dpc # "awaitLookups"]],
                          "DecodeFailure")

\* The getProgramAccounts request of lookup q fails: the lookup logs and
\* rethrows.
LookupReject(q) ==
    /\ lookup[q].status = "pending"
    /\ Settle([lookup EXCEPT ![q] = [status |-> "rejected", pools |-> <<>>,
                                     malformed |-> {},
                                     late |-> dpc # "awaitLookups"]],
              "QueryFailure")

NextDiscovery ==
    \/ CallGetPoolsWithPrices
    \/ CallGetBestPool
    \/ CallGetPrice
    \/ \E q \in LookupNames : LookupFulfil(q)
    \/ \E q \in LookupNames : LookupDecodeFails(q)
    \/ \E q \in LookupNames : LookupReject(q)

SpecDiscovery == InitDiscovery /\ [][NextDiscovery]_vars

AllFulfilled == \A q \in LookupNames : lookup[q].status = "fulfilled"

Degenerate(data) == data.baseReserve = 0 \/ data.quoteReserve = 0

\* C9: no list returned by getPoolsWithPrices contains a pool whose
\* baseReserve is 0 or whose quoteReserve is 0.
C9_NoDegeneratePoolReturned ==
    dpc = "returned" =>
        \A i \in 1..Len(discovered) : ~Degenerate(discovered[i].poolData)

\* A non-empty list was returned while a pool with a zero reserve exists on
\* chain (one that no lookup matched).
C9_Witness ==
    /\ dpc = "returned"
    /\ Len(discovered) >= 2
    /\ \E a \in PoolAddresses : Degenerate(chain[a])

\* C10 (as claimed): when the three lookups succeed, getPoolsWithPrices
\* succeeds and returns exactly the matched pools with positive reserves,
\* also when some matched pool has a zero reserve.
C10_DegeneratePoolNotFatal ==
    (/\ dpc \in {"returned", "thrown"}
     /\ AllFulfilled
     /\ \E i \in 1..Len(AllPools(lookup)) : Degenerate(AllPools(lookup)[i].poolData)
     /\ \E i \in 1..Len(AllPools(lookup)) : ~Degenerate(AllPools(lookup)[i].poolData)) =>
        /\ dpc = "returned"
        /\ [i \in 1..Len(discovered) |->
                [address |-> discovered[i].address,
                 is_native_base |-> discovered[i].is_native_base,
                 poolData |-> discovered[i].poolData]]
           = SelectSeq(AllPools(lookup), LAMBDA pool : ~Degenerate(pool.poolData))

\* The native reserve figure of a priced pool, in lamports (every
\* reserves.native of the model has the divisor LAMPORTS_PER_SOL).
NativeLamports(pool) == pool.reserves.native.num

\* A priced pool without its price and reserves: the Pool it was made from.
AsPool(pool) ==
    [address |-> pool.address, is_native_base |-> pool.is_native_base,
     poolData |-> pool.poolData]

\* C11: given the discovered list, getBestPool returns a pool whose
\* normalized native-side reserve (reserves.native) is >= that of every pool
\* in the list, and among the pools with the maximum the first of the list;
\* given the empty list it returns null without an error.
C11_BestPoolSelection ==
    (dpc = "returned" /\ api \in {"getBestPool", "getPrice"}) =>
        IF discovered = <<>>
            THEN bestPool.status = "null" /\ bestPool.error = ""
            ELSE /\ bestPool.status = "pool"
                 /\ \E i \in 1..Len(discovered) :
                        /\ bestPool.pools = <<discovered[i]>>
                        /\ \A j \in 1..Len(discovered) :
                              NativeLamports(discovered[j]) <= NativeLamports(discovered[i])
                        /\ \A j \in 1..(i - 1) :
                              NativeLamports(discovered[j]) < NativeLamports(discovered[i])

\* getBestPool chose the first of two different pools with the same, maximal
\* native reserve.
C11_Witness ==
    /\ dpc = "returned"
    /\ api = "getBestPool"
    /\ bestPool.status = "pool"
    /\ bestPool.pools = <<discovered[1]>>
    /\ \E j \in 2..Len(discovered) :
          /\ discovered[j].address # discovered[1].address
          /\ NativeLamports(discovered[j]) = NativeLamports(discovered[1])

\* C12: when the three lookups succeed with no match, getPoolsWithPrices
\* returns the empty list and getBestPool / getPrice return null; when one
\* of the lookups fails, getPoolsWithPrices, getBestPool and getPrice fail
\* and no list, empty or partial, is returned.
C12_EmptyVersusFailure ==
    /\ (AllFulfilled /\ \A q \in LookupNames : lookup[q].pools = <<>>) =>
          /\ dpc = "returned"
          /\ discovered = <<>>
          /\ api \in {"getBestPool", "getPrice"} => bestPool.status = "null"
          /\ api = "getPrice" => price.status = "null"
    /\ (\E q \in LookupNames : lookup[q].status = "rejected") =>
          /\ dpc = "thrown"
          /\ discovered = <<>>
          /\ discError # ""
          /\ api \in {"getBestPool", "getPrice"} => bestPool.status = "thrown"
          /\ api = "getPrice" => price.status = "thrown"

\* getPrice failed because one request failed, although another lookup had
\* found pools.
C12_Witness ==
    /\ api = "getPrice"
    /\ price.status = "thrown"
    /\ discError = "QueryFailure"
    /\ \E q \in LookupNames : lookup[q].status = "fulfilled" /\ lookup[q].pools # <<>>

\* C13: the three lookups are all started (their requests issued) before
\* the call awaits any of them; a list is returned only after all three
\* fulfilled; as soon as one lookup has failed the call has failed, whatever
\* the state of the others; and a lookup that settles after the failure
\* leaves the call failed with no list returned.
C13_FanOutFailFast ==
    /\ dpc # "idle" =>
          \A q \in LookupNames : lookup[q].status # "idle" /\ queries[q] = calls
    /\ dpc = "returned" => AllFulfilled
    /\ (\E q \in LookupNames : lookup[q].status = "rejected") => dpc = "thrown"
    /\ \A q \in LookupNames :
          lookup[q].late => dpc = "thrown" /\ discovered = <<>>

\* A lookup fulfilled with pools after the call had already failed on
\* another lookup, while the third is still in flight.
C13_Witness ==
    /\ dpc = "thrown"
    /\ \E q \in LookupNames :
          lookup[q].late /\ lookup[q].status = "fulfilled" /\ lookup[q].pools # <<>>
    /\ \E q \in LookupNames : lookup[q].status = "pending"

\* C14: the returned list is the token-as-base results, then the
\* token-as-quote results, then the token-as-base-with-WSOL-quote results,
\* with nothing removed: a pool matched by two lookups appears twice.
C14_Concatenation ==
    dpc = "returned" =>
        [i \in 1..Len(discovered) |-> AsPool(discovered[i])]
            = lookup["getPoolsWithBaseMint"].pools
                \o lookup["getPoolsWithQuoteMint"].pools
                \o lookup["getPoolsWithBaseMintQuoteWSOL"].pools

\* The list holds a pool of each lookup, and the same address twice.
C14_Witness ==
    /\ dpc = "returned"
    /\ lookup["getPoolsWithQuoteMint"].pools # <<>>
    /\ lookup["getPoolsWithBaseMintQuoteWSOL"].pools # <<>>
    /\ \E i, j \in 1..Len(discovered) :
          i < j /\ discovered[i].address = discovered[j].address

\* C20: when an account of a lookup's response does not decode, the lookup
\* fails and getPoolsWithPrices returns no list at all.
C20_DecodeFailureAborts ==
    \A q \in LookupNames :
        lookup[q].malformed # {} =>
            /\ lookup[q].status = "rejected"
            /\ dpc = "thrown"
            /\ discovered = <<>>

\* A lookup failed on one malformed account of a response with two accounts,
\* while another lookup had fulfilled with pools.
C20_Witness ==
    /\ dpc = "thrown"
    /\ discError = "DecodeFailure"
    /\ \E q \in LookupNames :
          /\ Cardinality(lookup[q].malformed) = 1
          /\ Cardinality({a \in PoolAddresses : Matches(q, chain[a])}) = 2
    /\ \E q \in LookupNames : lookup[q].status = "fulfilled" /\ lookup[q].pools # <<>>

\* ======================================================================
\* Successive PoolService calls while swaps move the reserves on chain.
\* ======================================================================
\* Two pools of the queried token, one against WSOL and one against USDC,
\* with equal reserves to begin with.
InitRefetch ==
    /\ chain = [a \in PoolAddresses |->
                  [baseMint |-> mintAddress,
                   quoteMint |-> IF a = "P1" THEN "WSOL" ELSE "USDC",
                   baseReserve |-> 1, quoteReserve |-> 1]]
    /\ DiscFresh
    /\ QuoteIdle
    /\ SlipIdle
    /\ TradeIdle

\* The caller has its result and is about to call again; in between, a swap
\* of another trader may have moved the reserves of a pool.  The promises
\* and the result of the finished call are local to it and are gone.
BetweenCalls ==
    /\ dpc \in {"returned", "thrown"}
    /\ calls < MaxCalls
    /\ previous' = [status |-> dpc, pools |-> discovered]
    /\ \E a \in PoolAddresses, b \in 1..MaxChainReserve, q \in 1..MaxChainReserve :
          chain' = [chain EXCEPT ![a].baseReserve = b, ![a].quoteReserve = q]
    /\ lookup' = NoLookups
    /\ dpc' = "idle"
    /\ discovered' = <<>>
    /\ discError' = ""
    /\ api' = "none"
    /\ bestPool' = NoBest
    /\ price' = NoPrice
    /\ UNCHANGED <<queries, calls, quoteVars, slipVars, tradeVars>>

NextRefetch ==
    \/ NextDiscovery
    \/ BetweenCalls

SpecRefetch == InitRefetch /\ [][NextRefetch]_vars

SlippageInputs ==
    {NaN} \cup {Int_(n) : n \in {-1, 0, DEFAULT_SLIPPAGE, BPS_DENOMINATOR, BPS_DENOMINATOR + 1}}
AmountInputs == {NaN, Fractional} \cup {Int_(n) : n \in -1..MaxTradeAmount}
PercentageInputs == {0, 50, 100, 101}

\* The slippage check of the three CLI commands:
\* isNaN(slippageBps) || slippageBps < 0 || slippageBps > 10000 is an error.
CliSlippageValid(slippage) ==
    slippage.kind = "int" /\ slippage.value >= 0 /\ slippage.value <= BPS_DENOMINATOR

\* The amount check of the CLI commands: isNaN(x) || x <= 0 is an error.
CliAmountValid(amount) ==
    ~(amount.kind = "nan" \/ (amount.kind = "int" /\ amount.value <= 0))

\* A percentage check without the upper limit.
PercentageValidLoose(percentage) == percentage > 0

\* The percentage check of the CLI and of sellPercentage:
\* percentage <= 0 || percentage > 100 is an error.
PercentageValid(percentage) == ~(percentage <= 0 \/ percentage > 100)

\* !exactAmount of sellExactAmount: true for 0 and NaN.
Falsy(amount) == amount.kind = "nan" \/ (amount.kind = "int" /\ amount.value = 0)

\* (tokenBalance * percentage) / 100 as a number of base units.
AmountToSell(balance, percentage) ==
    IF (balance * percentage) % 100 = 0
        THEN Int_((balance * percentage) \div 100)
        ELSE Fractional

\* The pools a getBestPool call can return: any matched pool account that
\* getPriceAndLiquidity accepts, as whichever lookup found it.
TradePools ==
    {getPriceAndLiquidity([address |-> t[1], is_native_base |-> IsNativeBase(t[2]),
                           poolData |-> t[3]]).value :
        t \in {u \in PoolAddresses \X LookupNames \X PoolAccounts :
                    Matches(u[2], u[3]) /\ ~Degenerate(u[3])}}

\* The configured wallet (the keypair of PRIVATE_KEY) and another account.
wallet == "WALLET"
Users == {wallet, "OTHER"}

\* The mint account of the traded token as getParsedAccountInfo would give
\* it: without parsed data, or parsed with its decimals.
MintInfos ==
    {[parsed |-> FALSE, decimals |-> 0]}
        \cup {[parsed |-> TRUE, decimals |-> d] : d \in {DEFAULT_DECIMALS, 8}}

\* The factor of the product handed to BigInt(), the number of raw units
\* in one unit of the caller's amount: LAMPORTS_PER_SOL in
\* solAmount * LAMPORTS_PER_SOL of buy, Math.pow(10, DEFAULTS.DECIMALS) in
\* exactAmount * Math.pow(10, DEFAULTS.DECIMALS) of sellExactAmount.
UnitFactor(side) ==
    IF side = "buy" THEN LAMPORTS_PER_SOL ELSE Pow10(DEFAULT_DECIMALS)

\* TokenService.getTokenDecimals: the parsed decimals, or DEFAULTS.DECIMALS.
getTokenDecimals(info) == IF info.parsed THEN info.decimals ELSE DEFAULT_DECIMALS

InitTrade ==
    /\ TradeFresh
    /\ mintInfo \in MintInfos
    /\ QuoteIdle
    /\ SlipIdle
    /\ DiscIdle

Side == IF call.op = "buy" THEN "buy" ELSE "sell"

\* A method without its catch block: the error is raised to the caller,
\* nothing is returned.
FailRaising(message) ==
    /\ tpc' = "done"
    /\ txResult' = [returned |-> FALSE, success |-> FALSE, error |-> message,
                    signature |-> ""]

\* The method returns {success: false, error} from its catch block.
Fail(message) ==
    /\ tpc' = "done"
    /\ txResult' = [returned |-> TRUE, success |-> FALSE, error |-> message,
                    signature |-> ""]

\* A CLI command throws on invalid input, prints the error and exits.
CliExit(message) ==
    /\ tpc' = "cliExit"
    /\ txResult' = [returned |-> TRUE, success |-> FALSE, error |-> message,
                    signature |-> ""]

\* buy-cli `buy`: validate --sol and --slippage, then call sdk.buy, which
\* calls getBestPool and awaits it.
CliBuy ==
    /\ tpc = "idle"
    /\ \E amount \in AmountInputs, slippage \in SlippageInputs :
        /\ call' = [entry |-> "cli", op |-> "buy", user |-> wallet, slippage |-> slippage,
                    amount |-> amount, percentage |-> 0]
        /\ IF ~CliAmountValid(amount)
              THEN CliExit("Invalid SOL amount")
              ELSE IF ~CliSlippageValid(slippage)
                      THEN CliExit("Invalid slippage (must be 0-10000 basis points)")
                      ELSE tpc' = "awaitBestPool" /\ UNCHANGED txResult
    /\ bestPoolCalls' = IF tpc' = "awaitBestPool" THEN 1 ELSE 0
    /\ UNCHANGED <<selectedPool, quote, slipUse, instruction, submissions, balanceRead>>
    /\ UNCHANGED <<quoteVars, slipVars, discVars, sendVars, mintInfo, simulations>>
    /\ UNCHANGED <<delegation, accounts>>

\* sdk.buy(params) called by a program using the SDK.
SdkBuy ==
    /\ tpc = "idle"
    /\ \E amount \in AmountInputs, slippage \in SlippageInputs, user \in Users :
        call' = [entry |-> "sdk", op |-> "buy", user |-> user, slippage |-> slippage,
                 amount |-> amount, percentage |-> 0]
    /\ tpc' = "awaitBestPool"
    /\ bestPoolCalls' = 1
    /\ UNCHANGED <<selectedPool, quote, slipUse, instruction, submissions, txResult,
                   balanceRead>>
    /\ UNCHANGED <<quoteVars, slipVars, discVars, sendVars, mintInfo, simulations>>
    /\ UNCHANGED <<delegation, accounts>>

\* sell-cli `amount`: validate --amount and --slippage, then call
\* sdk.sellExactAmount (whose own !exactAmount check then passes).
CliSellAmount ==
    /\ tpc = "idle"
    /\ \E amount \in AmountInputs, slippage \in SlippageInputs :
        /\ call' = [entry |-> "cli", op |-> "sellExactAmount", user |-> wallet, slippage |-> slippage,
                    amount |-> amount, percentage |-> 0]
        /\ IF ~CliAmountValid(amount)
              THEN CliExit("Invalid token amount")
              ELSE IF ~CliSlippageValid(slippage)
                      THEN CliExit("Invalid slippage (must be 0-10000 basis points)")
                      ELSE tpc' = "awaitBestPool" /\ UNCHANGED txResult
    /\ bestPoolCalls' = IF tpc' = "awaitBestPool" THEN 1 ELSE 0
    /\ UNCHANGED <<selectedPool, quote, slipUse, instruction, submissions, balanceRead>>
    /\ UNCHANGED <<quoteVars, slipVars, discVars, sendVars, mintInfo, simulations>>
    /\ UNCHANGED <<delegation, accounts>>

\* sdk.sellExactAmount(params) called by a program using the SDK.
SdkSellExactAmount ==
    /\ tpc = "idle"
    /\ \E amount \in AmountInputs, slippage \in SlippageInputs, user \in Users :
        /\ call' = [entry |-> "sdk", op |-> "sellExactAmount", user |-> user, slippage |-> slippage,
                    amount |-> amount, percentage |-> 0]
        /\ IF Falsy(amount)
              THEN Fail("Exact amount is required for sellExactAmount")
              ELSE tpc' = "awaitBestPool" /\ UNCHANGED txResult
    /\ bestPoolCalls' = IF tpc' = "awaitBestPool" THEN 1 ELSE 0
    /\ UNCHANGED <<selectedPool, quote, slipUse, instruction, submissions, balanceRead>>
    /\ UNCHANGED <<quoteVars, slipVars, discVars, sendVars, mintInfo, simulations>>
    /\ UNCHANGED <<delegation, accounts>>

\* sell-cli `percentage`: validate --percentage and --slippage, then call
\* sdk.sellPercentage (whose own percentage check then passes), which calls
\* getTokenBalance and awaits it.
CliSellPercentage ==
    /\ tpc = "idle"
    /\ \E percentage \in PercentageInputs, slippage \in SlippageInputs :
        /\ call' = [entry |-> "cli", op |-> "sellPercentage", user |-> wallet,
                    slippage |-> slippage,
                    amount |-> Int_(0), percentage |-> percentage]
        /\ IF ~PercentageValid(percentage)
              THEN CliExit("Invalid percentage (must be 1-100)")
              ELSE IF ~CliSlippageValid(slippage)
                      THEN CliExit("Invalid slippage (must be 0-10000 basis points)")
                      ELSE tpc' = "awaitBalance" /\ UNCHANGED txResult
    /\ UNCHANGED <<selectedPool, quote, slipUse, instruction, submissions,
                   bestPoolCalls, balanceRead>>
    /\ UNCHANGED <<quoteVars, slipVars, discVars, sendVars, mintInfo, simulations>>
    /\ UNCHANGED <<delegation, accounts>>

\* sdk.sellPercentage(params) called by a program using the SDK.
SdkSellPercentage ==
    /\ tpc = "idle"
    /\ \E percentage \in PercentageInputs, slippage \in SlippageInputs, user \in Users :
        /\ call' = [entry |-> "sdk", op |-> "sellPercentage", user |-> user,
                    slippage |-> slippage,
                    amount |-> Int_(0), percentage |-> percentage]
        /\ IF ~PercentageValid(percentage)
              THEN Fail("Percentage must be between 0 and 100")
              ELSE tpc' = "awaitBalance" /\ UNCHANGED txResult
    /\ UNCHANGED <<selectedPool, quote, slipUse, instruction, submissions,
                   bestPoolCalls, balanceRead>>
    /\ UNCHANGED <<quoteVars, slipVars, discVars, sendVars, mintInfo, simulations>>
    /\ UNCHANGED <<delegation, accounts>>

\* A balance check that lets a zero balance through.
NothingToSellNegative(tokenBalance) == tokenBalance < 0

\* tokenBalance === 0 in sellPercentage.
NothingToSell(tokenBalance) == tokenBalance = 0

\* The answers of connection.getTokenAccountBalance: an error (also when
\* the account does not exist), or the balance of the account.
BalanceResponses ==
    {[ok |-> FALSE, uiAmount |-> 0]}
        \cup {[ok |-> TRUE, uiAmount |-> n] : n \in 0..MaxBalance}

\* A getTokenBalance that lets the error of the balance query through.
getTokenBalanceRethrowing(response) ==
    [thrown |-> ~response.ok, value |-> response.uiAmount]

\* TokenService.getTokenBalance: balance.value.uiAmount || 0, and 0 from
\* its catch block.
getTokenBalance(response) ==
    [thrown |-> FALSE, value |-> IF response.ok THEN response.uiAmount ELSE 0]

\* getTokenBalance settles: an error goes to the catch block of
\* sellPercentage, a zero balance is an error; otherwise sellExactAmount is
\* called with balance * percentage / 100 and the same slippage, checks its
\* amount and awaits getBestPool.
BalanceResolves ==
    /\ tpc = "awaitBalance"
    /\ \E response \in BalanceResponses :
        LET result == getTokenBalance(response)
            tokenBalance == result.value
            amountToSell == AmountToSell(tokenBalance, call.percentage)
        IN  /\ balanceRead' = [read |-> TRUE, value |-> tokenBalance,
                               queryFailed |-> ~response.ok]
            /\ IF result.thrown
                  THEN /\ Fail("failed to get token account balance")
                       /\ UNCHANGED <<call, delegation>>
                  ELSE IF NothingToSell(tokenBalance)
                          THEN Fail("No tokens to sell") /\ UNCHANGED <<call, delegation>>
                          ELSE /\ call' = [call EXCEPT !.amount = amountToSell]
                               /\ delegation' = [made |-> delegation.made + 1,
                                                 amount |-> amountToSell,
                                                 slippage |-> call.slippage]
                               /\ IF Falsy(amountToSell)
                                     THEN Fail("Exact amount is required for sellExactAmount")
                                     ELSE tpc' = "awaitBestPool" /\ UNCHANGED txResult
    /\ bestPoolCalls' = IF tpc' = "awaitBestPool" THEN 1 ELSE 0
    /\ UNCHANGED <<selectedPool, quote, slipUse, instruction, submissions>>
    /\ UNCHANGED <<quoteVars, slipVars, discVars, sendVars, mintInfo, simulations>>
    /\ UNCHANGED accounts

\* A method without the `if (!pool) throw`: it goes on to the quote with
\* the null that getBestPool returned.
BestPoolResolvesWithoutPool ==
    /\ tpc = "awaitBestPool"
    /\ \/ Fail("Error getting best pool") /\ UNCHANGED <<selectedPool, bestPoolCalls>>
       \/ /\ UNCHANGED selectedPool
          /\ tpc' = "awaitQuotePool"
          /\ bestPoolCalls' = bestPoolCalls + 1
          /\ UNCHANGED txResult
    /\ UNCHANGED <<call, quote, slipUse, instruction, submissions, balanceRead>>
    /\ UNCHANGED <<quoteVars, slipVars, discVars, sendVars, mintInfo, simulations>>
    /\ UNCHANGED <<delegation, accounts>>

\* The method's own getBestPool call settles: it threw, returned null, or
\* returned a pool.  With a pool, the argument of the quote function,
\* BigInt(amount), is evaluated (a RangeError unless the amount is an
\* integer) and calculateBuyTokenAmount / calculateSellSolAmount is called,
\* which calls getBestPool again and awaits it.
BestPoolResolves ==
    /\ tpc = "awaitBestPool"
    /\ \/ Fail("Error getting best pool") /\ UNCHANGED selectedPool
       \/ Fail("No pool found for token") /\ UNCHANGED selectedPool
       \/ \E pool \in TradePools :
            /\ selectedPool' = pool
            /\ IF call.amount.kind # "int"
                  THEN Fail("RangeError: cannot be converted to a BigInt")
                  ELSE tpc' = "awaitQuotePool" /\ UNCHANGED txResult
    /\ bestPoolCalls' = IF tpc' = "awaitQuotePool" THEN bestPoolCalls + 1 ELSE bestPoolCalls
    /\ UNCHANGED <<call, quote, slipUse, instruction, submissions, balanceRead>>
    /\ UNCHANGED <<quoteVars, slipVars, discVars, sendVars, mintInfo, simulations>>
    /\ UNCHANGED <<delegation, accounts>>

\* The getBestPool call inside the quote function settles.  With a pool the
\* quote is computed from that pool's reserves (a RangeError when the
\* divisor is 0), BigInt(slippage) is evaluated (a RangeError unless it is
\* an integer), the slippage function is applied, the instruction is built
\* for the address of the pool selected first, and sendTransaction is
\* called, which awaits getLatestBlockhash.
QuotePoolResolves ==
    /\ tpc = "awaitQuotePool"
    /\ \/ Fail("Error getting best pool") /\ UNCHANGED <<quote, slipUse, instruction>>
       \/ Fail("No pool found") /\ UNCHANGED <<quote, slipUse, instruction>>
       \/ \E pool \in TradePools :
            LET amountIn == call.amount.value
                baseReserve == pool.poolData.baseReserve
                quoteReserve == pool.poolData.quoteReserve
                divisor == IF Side = "buy" THEN quoteReserve + amountIn
                                           ELSE baseReserve + amountIn
                amountOut == IF Side = "buy"
                    THEN calculateBuyTokenAmount(baseReserve, quoteReserve, amountIn)
                    ELSE calculateSellSolAmount(baseReserve, quoteReserve, amountIn)
                bounded == IF Side = "buy"
                    THEN calculateWithSlippageBuy(amountOut, call.slippage.value)
                    ELSE calculateWithSlippageSell(amountOut, call.slippage.value)
            IN  IF divisor = 0
                  THEN /\ Fail("RangeError: Division by zero")
                       /\ UNCHANGED <<quote, slipUse, instruction>>
                  ELSE /\ quote' = [done |-> TRUE, pool |-> pool.address,
                                    amountIn |-> amountIn, amountOut |-> amountOut]
                       /\ IF call.slippage.kind # "int"
                            THEN /\ Fail("RangeError: cannot be converted to a BigInt")
                                 /\ UNCHANGED <<slipUse, instruction>>
                            ELSE /\ slipUse' = [evaluated |-> TRUE,
                                                bps |-> call.slippage.value,
                                                bounded |-> bounded]
                                 /\ instruction' = [built |-> TRUE, kind |-> Side,
                                                    poolId |-> selectedPool.address,
                                                    amount |-> amountIn,
                                                    perUnit |-> UnitFactor(Side),
                                                    bound |-> bounded]
                                 /\ tpc' = "awaitBlockhash"
                                 /\ UNCHANGED txResult
    /\ accounts' = IF instruction'.built
                      THEN [built |-> TRUE,
                            ataOf |-> IF Side = "buy" THEN call.user ELSE "none",
                            credited |-> call.user,
                            payer |-> IF Side = "buy" THEN wallet ELSE "none",
                            owner |-> IF Side = "buy" THEN wallet ELSE "none",
                            signer |-> wallet]
                      ELSE accounts
    /\ UNCHANGED <<call, selectedPool, submissions, bestPoolCalls, balanceRead>>
    /\ UNCHANGED <<quoteVars, slipVars, discVars, sendVars, mintInfo, simulations>>
    /\ UNCHANGED delegation

\* TransactionService.sendTransaction: getLatestBlockhash settles.  On
\* success the transaction is compiled, signed and handed to
\* connection.sendTransaction, which is awaited.
BlockhashResolves ==
    /\ tpc = "awaitBlockhash"
    /\ \/ Fail("failed to get recent blockhash") /\ UNCHANGED submissions
       \/ /\ submissions' = submissions + 1
          /\ tpc' = "awaitSubmit"
          /\ UNCHANGED txResult
    /\ UNCHANGED <<call, selectedPool, quote, slipUse, instruction, bestPoolCalls,
                   balanceRead>>
    /\ UNCHANGED <<quoteVars, slipVars, discVars, sendVars, mintInfo, simulations>>
    /\ UNCHANGED <<delegation, accounts>>

\* A sendTransaction that submits again after a failed submission.
SubmitResolvesRetrying ==
    /\ tpc = "awaitSubmit"
    /\ \/ /\ submissions < 3
          /\ submissions' = submissions + 1
          /\ UNCHANGED <<tpc, txResult>>
       \/ /\ tpc' = "done"
          /\ txResult' = [returned |-> TRUE, success |-> TRUE, error |-> "",
                       signature |-> "SIGNATURE"]
          /\ UNCHANGED submissions
    /\ UNCHANGED <<call, selectedPool, quote, slipUse, instruction,
                   bestPoolCalls, balanceRead>>
    /\ UNCHANGED <<quoteVars, slipVars, discVars, sendVars, mintInfo, simulations>>
    /\ UNCHANGED <<delegation, accounts>>

\* connection.sendTransaction settles: a signature, or an error.
SubmitResolves ==
    /\ tpc = "awaitSubmit"
    /\ \/ Fail("failed to send transaction")
       \/ /\ tpc' = "done"
          /\ txResult' = [returned |-> TRUE, success |-> TRUE, error |-> "",
                       signature |-> "SIGNATURE"]
    /\ UNCHANGED <<call, selectedPool, quote, slipUse, instruction, submissions,
                   bestPoolCalls, balanceRead>>
    /\ UNCHANGED <<quoteVars, slipVars, discVars, sendVars, mintInfo, simulations>>
    /\ UNCHANGED <<delegation, accounts>>

NextTrade ==
    \/ CliBuy
    \/ SdkBuy
    \/ CliSellAmount
    \/ SdkSellExactAmount
    \/ CliSellPercentage
    \/ SdkSellPercentage
    \/ BalanceResolves
    \/ BestPoolResolves
    \/ QuotePoolResolves
    \/ BlockhashResolves
    \/ SubmitResolves

SpecTrade == InitTrade /\ [][NextTrade]_vars

\* C8 (as claimed): on every path into buy, sellExactAmount and
\* sellPercentage (SDK call or CLI) a slippage value outside [0, 10000] is
\* rejected before the slippage formula is evaluated, so no bound computed
\* from it reaches an instruction.
C8_InvalidSlippageRejected ==
    (call.entry # "none" /\ ~CliSlippageValid(call.slippage)) =>
        /\ ~slipUse.evaluated
        /\ ~instruction.built

\* C16 (as claimed): a buy of 0 and a sell of 0 through the SDK are not
\* rejected as invalid input, and the amount quoted for them is 0.
C16_ZeroInputValid ==
    (/\ call.entry = "sdk"
     /\ call.op \in {"buy", "sellExactAmount"}
     /\ call.amount = Int_(0)) =>
        /\ txResult.error # "Exact amount is required for sellExactAmount"
        /\ quote.done => quote.amountOut = 0

C19_ZeroBalanceIsError ==
    (balanceRead.read /\ balanceRead.value = 0) =>
        /\ txResult.returned
        /\ ~txResult.success
        /\ txResult.error = "No tokens to sell"
        /\ bestPoolCalls = 0
        /\ ~instruction.built
        /\ submissions = 0

\* sdk.sellPercentage with a valid percentage read a balance of 0.
C19_Witness ==
    /\ call.entry = "sdk"
    /\ call.op = "sellPercentage"
    /\ PercentageValid(call.percentage)
    /\ balanceRead.read
    /\ balanceRead.value = 0
    /\ tpc = "done"

\* C21 (as claimed): the raw amount of a sell is formed with the decimal
\* count of the traded token (getTokenDecimals: the decimals of its mint,
\* 6 only when they cannot be read).
C21_TokenDecimalsUsed ==
    (instruction.built /\ instruction.kind = "sell") =>
        instruction.perUnit = Pow10(getTokenDecimals(mintInfo))

\* C23 (as claimed): a transaction is submitted only after a simulation of
\* its instructions.
C23_SimulatedBeforeSubmission ==
    submissions >= 1 => simulations >= 1

\* C26 (as claimed): the pool address written into the swap instruction is
\* the address of the pool whose reserves gave the quote.
C26_QuoteFromInstructionPool ==
    instruction.built => quote.done /\ instruction.poolId = quote.pool

\* C30 (as claimed): in a transaction built by buy, the associated token
\* account created, the account credited, the declared owner of that
\* account and the signer all belong to the user of BuyParams.
C30_BuyActsForUser ==
    (accounts.built /\ call.op = "buy") =>
        /\ accounts.ataOf = call.user
        /\ accounts.credited = call.user
        /\ accounts.owner = call.user
        /\ accounts.signer = call.user

\* C22: buy, sellExactAmount, sellPercentage and the sendTransaction they
\* end in never raise: a finished call has returned a result.  A success
\* carries the signature the submission gave and follows the one accepted
\* submission of a built instruction; a failure carries the error of the
\* step that failed and no signature.
C22_ResultOutcomes ==
    /\ tpc = "done" => txResult.returned
    /\ tpc \notin {"done", "cliExit"} => ~txResult.returned
    /\ (tpc = "done" /\ txResult.success) =>
          /\ txResult.signature # ""
          /\ txResult.error = ""
          /\ submissions = 1
          /\ instruction.built
    /\ (tpc = "done" /\ ~txResult.success) =>
          /\ txResult.error # ""
          /\ txResult.signature = ""

\* A call whose transaction was accepted has returned the signature.
C22_Witness ==
    /\ tpc = "done"
    /\ txResult.returned
    /\ txResult.success
    /\ txResult.signature = "SIGNATURE"

\* C25: a transaction is submitted only after the instruction was built,
\* the instruction is built only with the slippage bound, which is the
\* slippage function of the quoted amount, the quote is made only after a
\* pool was selected; when a discovery returns no pool, no instruction is
\* built and nothing is submitted.
C25_PreparationOrder ==
    /\ submissions >= 1 => instruction.built
    /\ instruction.built =>
          /\ slipUse.evaluated
          /\ instruction.bound = slipUse.bounded
          /\ instruction.poolId = selectedPool.address
    /\ slipUse.evaluated =>
          /\ quote.done
          /\ slipUse.bounded =
                IF Side = "buy"
                    THEN calculateWithSlippageBuy(quote.amountOut, slipUse.bps)
                    ELSE calculateWithSlippageSell(quote.amountOut, slipUse.bps)
    /\ quote.done => selectedPool # NoPool /\ selectedPool.address # "none"
    /\ txResult.error \in {"No pool found for token", "No pool found"} =>
          ~instruction.built /\ submissions = 0

\* A transaction was submitted with a bound that differs from the quote.
C25_Witness ==
    /\ submissions = 1
    /\ instruction.built
    /\ quote.amountOut > 0
    /\ instruction.bound # quote.amountOut

C29_BalanceFailureIsZero ==
    (balanceRead.read /\ balanceRead.queryFailed) =>
        /\ balanceRead.value = 0
        /\ tpc = "done"
        /\ txResult = [returned |-> TRUE, success |-> FALSE,
                       error |-> "No tokens to sell", signature |-> ""]
        /\ delegation.made = 0
        /\ ~instruction.built
        /\ submissions = 0

\* The balance query of a sellPercentage call failed.
C29_Witness ==
    /\ call.op = "sellPercentage"
    /\ balanceRead.read
    /\ balanceRead.queryFailed
    /\ tpc = "done"

\* C27 (as claimed): for every pool getPoolsWithPrices returned,
\* reserves.native is the reserve of the side the queried token does not
\* occupy and reserves.token the reserve of the queried token's side, also
\* for the pools of the token-as-quote lookup.
C27_ReservesBySide ==
    \A i \in 1..Len(discovered) :
        LET pool == discovered[i]
            tokenIsBase == pool.poolData.baseMint = mintAddress
        IN  /\ pool.reserves.native.num =
                    IF tokenIsBase THEN pool.poolData.quoteReserve
                                   ELSE pool.poolData.baseReserve
            /\ pool.reserves.token.num =
                    IF tokenIsBase THEN pool.poolData.baseReserve
                                   ELSE pool.poolData.quoteReserve

\* ======================================================================
\* Submission: TransactionService called with the swap instruction of a
\* trade, by each of its three methods.  Each awaits getLatestBlockhash and
\* then its submission collaborator: connection.sendTransaction,
\* sendNozomiTx or sendBundle.
\* ======================================================================

\* new PublicKey('11111111111111111111111111111111') of sendBundleTransaction.
PLACEHOLDER_POOL == "11111111111111111111111111111111"

\* The swap instructions a caller may hand over.
SwapInstructions ==
    {[built |-> TRUE, kind |-> k, poolId |-> a, amount |-> n,
      perUnit |-> UnitFactor(k), bound |-> b] :
        k \in {"buy", "sell"}, a \in PoolAddresses,
        n \in 0..MaxTradeAmount, b \in 0..MaxTradeAmount}

InitSubmit ==
    /\ TradeIdle
    /\ QuoteIdle
    /\ SlipIdle
    /\ DiscIdle

\* A method is called with an instruction and awaits getLatestBlockhash.
Send(method) ==
    /\ spc = "idle"
    /\ \E swap \in SwapInstructions :
        sendCall' = [method |-> method, instruction |-> swap]
    /\ spc' = "awaitBlockhash"
    /\ UNCHANGED <<handedPool, sendResult>>
    /\ UNCHANGED <<quoteVars, slipVars, discVars, callVars>>

sendTransaction == Send("sendTransaction")

sendNozomiTransaction == Send("sendNozomiTransaction")

sendBundleTransaction == Send("sendBundleTransaction")

\* The catch block of each method: {success: false, error}.
SendFail(message) ==
    /\ spc' = "done"
    /\ sendResult' = [returned |-> TRUE, success |-> FALSE, error |-> message,
                      signature |-> ""]

\* getLatestBlockhash settles.  On success the transaction is handed to
\* the collaborator of the method; sendBundle also gets a pool address,
\* the one sendBundleTransaction constructs.
SendBlockhashResolves ==
    /\ spc = "awaitBlockhash"
    /\ \/ SendFail("failed to get recent blockhash") /\ UNCHANGED handedPool
       \/ /\ spc' = "awaitSubmit"
          /\ handedPool' = IF sendCall.method = "sendBundleTransaction"
                              THEN PLACEHOLDER_POOL
                              ELSE "none"
          /\ UNCHANGED sendResult
    /\ UNCHANGED sendCall
    /\ UNCHANGED <<quoteVars, slipVars, discVars, callVars>>

\* The collaborator settles: it threw (or, for sendNozomiTx and sendBundle,
\* returned a failure), or it gave a signature.
SendSubmitResolves ==
    /\ spc = "awaitSubmit"
    /\ \/ SendFail("failed to send transaction")
       \/ /\ spc' = "done"
          /\ sendResult' = [returned |-> TRUE, success |-> TRUE, error |-> "",
                            signature |-> "SIGNATURE"]
    /\ UNCHANGED <<sendCall, handedPool>>
    /\ UNCHANGED <<quoteVars, slipVars, discVars, callVars>>

NextSubmit ==
    \/ sendTransaction
    \/ sendNozomiTransaction
    \/ sendBundleTransaction
    \/ SendBlockhashResolves
    \/ SendSubmitResolves

SpecSubmit == InitSubmit /\ [][NextSubmit]_vars

\* C24 (as claimed): a pool address handed to a submission collaborator is
\* the address of the pool of the trade being submitted.
C24_ActualPoolHanded ==
    handedPool # "none" => handedPool = sendCall.instruction.poolId

=============================================================================
